---- MODULE Spec2Model ----
(***************************************************************************)
(* moments.LD.Numerics: population split maps, the Crank-Nicolson time     *)
(* integrator `integrate` and the equilibrium solvers `steady_state` and   *)
(* `steady_state_two_pop`.                                                 *)
(*                                                                         *)
(* Numbers are exact rationals <<n, d>> (d > 0, lowest terms): the model   *)
(* follows the arithmetic of the code without floating-point rounding.     *)
(* A vector is a record [kind, val]: kind "num" holds a sequence of         *)
(* rationals; kind "sym" holds the expression that produced it, used where *)
(* the coefficient matrices (module Matrices, not part of the sources) are *)
(* not known entry by entry: more than one population, or selfing.         *)
(***************************************************************************)
EXTENDS Integers, Sequences, FiniteSets, TLC

\* ------------------------------------------------------------ bounds
MaxT == 3
MaxK == 2
MaxPops == 3

\* ------------------------------------------------- exact arithmetic
Abs(x) == IF x < 0 THEN -x ELSE x

RECURSIVE GCD(_, _)
GCD(a, b) == IF b = 0 THEN a ELSE GCD(b, a % b)

Norm(n, d) ==
    LET g == GCD(Abs(n), Abs(d))
        s == IF d < 0 THEN -1 ELSE 1
    IN <<(s * n) \div g, (s * d) \div g>>

Q(n) == <<n, 1>>

RAdd(a, b) ==
    LET g == GCD(a[2], b[2])
    IN Norm(a[1] * (b[2] \div g) + b[1] * (a[2] \div g), (a[2] \div g) * b[2])

RNeg(a) == <<-a[1], a[2]>>

RSub(a, b) == RAdd(a, RNeg(b))

RMul(a, b) ==
    LET g1 == GCD(Abs(a[1]), b[2])
        g2 == GCD(Abs(b[1]), a[2])
    IN Norm((a[1] \div g1) * (b[1] \div g2), (a[2] \div g2) * (b[2] \div g1))

RDiv(a, b) == RMul(a, IF b[1] < 0 THEN <<-b[2], -b[1]>> ELSE <<b[2], b[1]>>)

RLt(a, b) == a[1] * b[2] < b[1] * a[2]

RLe(a, b) == a[1] * b[2] <= b[1] * a[2]

Half(a) == RDiv(a, Q(2))

\* ---------------------------------------------------- linear algebra
RECURSIVE RSum(_)
RSum(s) == IF s = <<>> THEN Q(0) ELSE RAdd(s[1], RSum(Tail(s)))

\* a vector or a matrix row, with its entries worked out (a tuple)
Row(s) == s \o <<>>

Eye(n) == Row([i \in 1..n |-> Row([j \in 1..n |-> IF i = j THEN Q(1) ELSE Q(0)])])

MatAdd(A, B) ==
    Row([i \in 1..Len(A) |-> Row([j \in 1..Len(A[i]) |-> RAdd(A[i][j], B[i][j])])])

MatScale(c, A) ==
    Row([i \in 1..Len(A) |-> Row([j \in 1..Len(A[i]) |-> RMul(c, A[i][j])])])

MatVec(A, x) ==
    Row([i \in 1..Len(A) |-> RSum(Row([j \in 1..Len(x) |-> RMul(A[i][j], x[j])]))])

VAdd(x, z) == Row([i \in 1..Len(x) |-> RAdd(x[i], z[i])])

VScale(c, x) == Row([i \in 1..Len(x) |-> RMul(c, x[i])])

Minor(A, j) ==
    Row([r \in 1..(Len(A) - 1) |->
           Row([c \in 1..(Len(A) - 1) |-> A[r + 1][IF c < j THEN c ELSE c + 1]])])

RECURSIVE Det(_)
Det(A) ==
    IF Len(A) = 1 THEN A[1][1]
    ELSE RSum(Row([j \in 1..Len(A) |->
                     RMul(IF j % 2 = 1 THEN A[1][j] ELSE RNeg(A[1][j]),
                          Det(Minor(A, j)))]))

ReplaceCol(A, j, b) ==
    Row([r \in 1..Len(A) |-> Row([c \in 1..Len(A) |-> IF c = j THEN b[r] ELSE A[r][c]])])

\* the solution x of A x = b (Cramer's rule)
LinSolve(A, b) ==
    LET d == Det(A)
    IN Row([j \in 1..Len(A) |-> RDiv(Det(ReplaceCol(A, j, b)), d)])

\* ------------------------------------------------------------ values
\* Python's None, and a local name that has not been assigned yet
None == [mat |-> "None", num_pops |-> 0, par |-> <<>>]

Unbound == <<>>

Bound(v) == <<v>>

IsBound(x) == x # <<>>

\* a vector of numbers / a vector known only by the expression that made it
Num(s) == [kind |-> "num", val |-> s]

Sym(f, l, r) == [kind |-> "sym", val |-> [f |-> f, l |-> l, r |-> r]]

\* rho: absent, a scalar, or a list          (np.isscalar, hasattr __len__)
RhoNone == [kind |-> "none", val |-> <<>>]

RhoScalar(r) == [kind |-> "scalar", val |-> <<r>>]

RhoList(rs) == [kind |-> "list", val |-> rs]

\* selfing: absent, one rate, or a list of rates (an entry may be None)
SelfNone == [kind |-> "none", val |-> <<>>]

SelfScalar(f) == [kind |-> "scalar", val |-> <<f>>]

SelfList(fs) == [kind |-> "list", val |-> fs]

\* ------------------------------------------------- module Matrices
\* An operator is named by its builder and the arguments it was built from.
\* MatOf gives its entries for one population without selfing, in the moment
\* order DD_0_0, Dz_0_0_0, pi2_0_0_0_0 (and H_0_0); for other arguments the
\* operator stays a name and what it is applied to becomes a "sym" vector.
Op(mat, num_pops, par) == [mat |-> mat, num_pops |-> num_pops, par |-> par]

NoSelfing(s) ==
    \/ s.kind = "none"
    \/ s.kind = "list" /\ \A i \in 1..Len(s.val) : s.val[i].kind = "none"

Matrices_drift_h(num_pops, nus) == Op("drift_h", num_pops, <<nus, SelfNone>>)

Matrices_drift_ld(num_pops, nus) == Op("drift_ld", num_pops, <<nus, SelfNone>>)

Matrices_mutation_h(num_pops, theta, selfing) == Op("mutation_h", num_pops, <<theta, selfing>>)

Matrices_mutation_ld(num_pops, theta, selfing) == Op("mutation_ld", num_pops, <<theta, selfing>>)

Matrices_recombination(num_pops, r, selfing) == Op("recombination", num_pops, <<r, selfing>>)

Matrices_migration_h(num_pops, m) == Op("migration_h", num_pops, <<m, SelfNone>>)

Matrices_migration_ld(num_pops, m) == Op("migration_ld", num_pops, <<m, SelfNone>>)

RECURSIVE Known(_)
Known(A) ==
    CASE A.mat \in {"drift_h", "drift_ld", "mutation_h", "mutation_ld", "recombination"} ->
            A.num_pops = 1 /\ NoSelfing(A.par[2])
      [] A.mat = "sum" -> \A i \in 1..Len(A.par) : Known(A.par[i])
      [] A.mat \in {"explicit", "implicit"} -> Known(A.par[2])
      [] OTHER -> FALSE

RECURSIVE MatOf(_)
MatOf(A) ==
    CASE A.mat = "drift_h" -> << <<RDiv(Q(-1), A.par[1][1])>> >>
      [] A.mat = "drift_ld" ->
            MatScale(RDiv(Q(1), A.par[1][1]),
                     << <<Q(-3), Q(1), Q(1)>>, <<Q(4), Q(-5), Q(0)>>, <<Q(0), Q(0), Q(-2)>> >>)
      [] A.mat = "mutation_h" -> << <<A.par[1]>> >>
      [] A.mat = "mutation_ld" -> << <<Q(0)>>, <<Q(0)>>, <<A.par[1]>> >>
      [] A.mat = "recombination" ->
            << <<RNeg(A.par[1]), Q(0), Q(0)>>,
               <<Q(0), RNeg(Half(A.par[1])), Q(0)>>,
               <<Q(0), Q(0), Q(0)>> >>
      [] A.mat = "sum" ->
            IF Len(A.par) = 1 THEN MatOf(A.par[1])
            ELSE MatAdd(MatOf(A.par[1]), MatOf(Op("sum", A.num_pops, Tail(A.par))))
      [] A.mat = "explicit" ->
            LET M == MatOf(A.par[2]) IN MatAdd(Eye(Len(M)), MatScale(Half(A.par[1]), M))
      [] A.mat = "implicit" ->
            LET M == MatOf(A.par[2])
            IN MatAdd(Eye(Len(M)), MatScale(RNeg(Half(A.par[1])), M))

\* A + B + ... of operators
OpSum(num_pops, parts) == Op("sum", num_pops, parts)

\* I + dt/2 A
Explicit(dt, A) == Op("explicit", A.num_pops, <<dt, A>>)

\* I - dt/2 A, inverted (np.linalg.inv) or factorized (scipy factorized)
Implicit(dt, A) == Op("implicit", A.num_pops, <<dt, A>>)

\* A.dot(x)
Dot(A, x) ==
    IF Known(A) /\ x.kind = "num" THEN Num(MatVec(MatOf(A), x.val))
    ELSE Sym("dot", A, x)

\* c * x
Times(c, x) == IF x.kind = "num" THEN Num(VScale(c, x.val)) ELSE Sym("times", c, x)

\* x + z
Plus(x, z) ==
    IF x.kind = "num" /\ z.kind = "num" THEN Num(VAdd(x.val, z.val))
    ELSE Sym("plus", x, z)

\* the x with (I - dt/2 A) x = b: Ab2_h.dot(b), Ab2_ld(b), factorized(A)(b)
Solve(A, b) ==
    IF Known(A) /\ b.kind = "num" THEN Num(LinSolve(MatOf(A), b.val))
    ELSE Sym("solve", A, b)

\* Uh, a vector: mutation_h returns theta * ones(...)
AsVector(U) == IF Known(U) THEN Num(<<U.par[1]>>) ELSE Sym("vector", U, <<>>)

\* -x
Minus(x) == IF x.kind = "num" THEN Num(VScale(Q(-1), x.val)) ELSE Sym("minus", x, <<>>)

\* the builders of module Matrices behind a sequence of operators (None: none)
Names(ops) ==
    LET built == SelectSeq(ops, LAMBDA A : A # None)
    IN [i \in 1..Len(built) |-> built[i].mat]

\* ------------------------------------------- transition matrices
\* (frozen is always None here and is left out of the argument lists)
drift(num_pops, nus, rho) ==
    [Dh |-> Matrices_drift_h(num_pops, nus),
     Dld |-> IF rho.kind # "none" THEN Matrices_drift_ld(num_pops, nus) ELSE None]

mutation(num_pops, theta, selfing, rho) ==
    [Uh |-> Matrices_mutation_h(num_pops, theta, selfing),
     Uld |-> IF rho.kind # "none" THEN Matrices_mutation_ld(num_pops, theta, selfing)
             ELSE None]

recombination(num_pops, rho, selfing) ==
    IF rho.kind = "scalar" THEN Matrices_recombination(num_pops, rho.val[1], selfing)
    ELSE [i \in 1..Len(rho.val) |-> Matrices_recombination(num_pops, rho.val[i], selfing)]

migration(num_pops, m, rho) ==
    [Mh |-> Matrices_migration_h(num_pops, m),
     Mld |-> IF rho.kind # "none" THEN Matrices_migration_ld(num_pops, m) ELSE None]

\* ------------------------------------------------------- integrate
\* m: absent, or a matrix of rates
MNone == [given |-> FALSE, mat |-> <<>>]

MGiven(mat) == [given |-> TRUE, mat |-> mat]

\* np.any(np.array(m) != 0)
AnyNonZero(mat) == \E i \in 1..Len(mat) : \E j \in 1..Len(mat[i]) : mat[i][j] # 0

\* nu: a list of sizes, or a function of time (here the sizes `sizes` before
\* the time `at` and the sizes `after` from then on)
NuList(sizes) == [callable |-> FALSE, sizes |-> sizes, at |-> Q(0), after |-> sizes]

NuFunc(before, at, after) == [callable |-> TRUE, sizes |-> before, at |-> at, after |-> after]

\* nu(t)
NuAt(nu, t) == IF RLt(t, nu.at) THEN nu.sizes ELSE nu.after

Raise(f, what) == [f EXCEPT !.pc = "error", !.err = what]

\* a variant that builds the operator for any matrix that is given, zero or not
MigrationBuiltForAnyMatrix(num_pops, m) == num_pops > 1 /\ m.given

\* line 168-169: is the migration operator built before the loop?
MigrationBuilt(num_pops, m) == num_pops > 1 /\ m.given /\ AnyNonZero(m.mat)

\* line 186: does a rebuild add the migration operator?
MigrationUsed(num_pops, m) == num_pops > 1 /\ m.given /\ AnyNonZero(m.mat)

\* lines 147-174: the call, up to the loop.  num_pops = 0 stands for None.
EnterIntegrate(Y, nu, T, dt, theta, rho, m, num_pops_arg) ==
    LET num_pops == IF num_pops_arg = 0 THEN Len(nu.sizes) ELSE num_pops_arg
        nus == IF nu.callable THEN NuAt(nu, Q(0)) ELSE nu.sizes
        U == mutation(num_pops, theta, SelfNone, rho)
        mig == MigrationBuilt(num_pops, m)
        M == migration(num_pops, m.mat, rho)
        R == IF rho.kind = "none" THEN <<>> ELSE recombination(num_pops, rho, SelfNone)
    IN [fn |-> "integrate", pc |-> "while", err |-> "",
        Y |-> Y, Yin |-> Y, dt_in |-> dt,
        nu |-> nu, T |-> T, dt |-> dt, theta |-> theta, rho |-> rho, m |-> m,
        num_pops |-> num_pops,
        h |-> Y[Len(Y)],
        y |-> IF Len(Y) = 2 THEN Bound(Y[1]) ELSE Unbound,
        ys |-> IF Len(Y) = 2 THEN Unbound ELSE Bound(SubSeq(Y, 1, Len(Y) - 1)),
        nus |-> nus,
        Uh |-> U.Uh, Uld |-> U.Uld,
        R |-> IF rho.kind # "none" THEN Bound(R) ELSE Unbound,
        Mh |-> IF mig THEN Bound(M.Mh) ELSE Unbound,
        Mld |-> IF mig THEN Bound(M.Mld) ELSE Unbound,
        dt_last |-> dt, nus_last |-> nus, elapsed_t |-> Q(0),
        Dh |-> Unbound, Dld |-> Unbound, Ab_h |-> Unbound, Ab_ld |-> Unbound,
        Ab1_h |-> Unbound, Ab2_h |-> Unbound, Ab1_ld |-> Unbound, Ab2_ld |-> Unbound,
        steps |-> 0, rebuilds |-> 0,
        calls |-> Names(<<U.Uh, U.Uld>>)
                  \o Names(IF rho.kind = "scalar" THEN <<R>> ELSE R)
                  \o (IF mig THEN Names(<<M.Mh, M.Mld>>) ELSE <<>>)]

\* line 176: while elapsed_t < T
WhileTest(f) ==
    IF RLt(f.elapsed_t, f.T) THEN [f EXCEPT !.pc = "clip"]
    ELSE [f EXCEPT !.pc = "writeback_h"]

\* a variant that never shortens the last step
ClipNever(f) ==
    [f EXCEPT !.pc = "rebuild",
              !.nus = IF f.nu.callable THEN NuAt(f.nu, RAdd(f.elapsed_t, Half(f.dt)))
                      ELSE f.nus]

\* lines 177-181: shorten the last step; evaluate the sizes at its midpoint
Clip(f) ==
    LET dt == IF RLt(f.T, RAdd(f.elapsed_t, f.dt)) THEN RSub(f.T, f.elapsed_t) ELSE f.dt
    IN [f EXCEPT !.pc = "rebuild",
                 !.dt = dt,
                 !.nus = IF f.nu.callable THEN NuAt(f.nu, RAdd(f.elapsed_t, Half(dt)))
                         ELSE f.nus]

\* a variant that looks at the step size only, not at the sizes
MustRebuildOnNewDt(f) == f.dt # f.dt_last \/ f.elapsed_t = Q(0)

\* a variant that builds the operators on the first step only
MustRebuildFirstOnly(f) == f.elapsed_t = Q(0)

\* line 184: recompute matrices if dt or sizes have changed
MustRebuild(f) == f.dt # f.dt_last \/ f.nus # f.nus_last \/ f.elapsed_t = Q(0)

\* lines 185-222: the combined operators and their explicit / implicit halves
Rebuild(f) ==
    LET D == drift(f.num_pops, f.nus, f.rho)
        mig == MigrationUsed(f.num_pops, f.m)
        Ab_h == IF mig THEN OpSum(f.num_pops, <<D.Dh, f.Mh[1]>>)
                ELSE OpSum(f.num_pops, <<D.Dh>>)
        ld(r) == IF mig THEN OpSum(f.num_pops, <<D.Dld, f.Mld[1], r>>)
                 ELSE OpSum(f.num_pops, <<D.Dld, r>>)
        Ab_ld == IF f.rho.kind = "scalar" THEN ld(f.R[1])
                 ELSE [i \in 1..Len(f.rho.val) |-> ld(f.R[1][i])]
        g == [f EXCEPT !.pc = "forward_ld",
                       !.Dh = Bound(D.Dh), !.Dld = Bound(D.Dld),
                       !.Ab_h = Bound(Ab_h),
                       !.Ab1_h = Bound(Explicit(f.dt, Ab_h)),
                       !.Ab2_h = Bound(Implicit(f.dt, Ab_h)),
                       !.rebuilds = f.rebuilds + 1,
                       !.calls = f.calls \o Names(<<D.Dh, D.Dld>>)]
    IN IF ~MustRebuild(f) THEN [f EXCEPT !.pc = "forward_ld"]
       ELSE IF mig /\ ~IsBound(f.Mh) THEN Raise(f, "NameError")
       ELSE IF f.rho.kind = "none" THEN g
       ELSE IF f.rho.kind = "scalar"
            THEN [g EXCEPT !.Ab_ld = Bound(Ab_ld),
                           !.Ab1_ld = Bound(Explicit(f.dt, Ab_ld)),
                           !.Ab2_ld = Bound(Implicit(f.dt, Ab_ld))]
       ELSE [g EXCEPT !.Ab_ld = Bound(Ab_ld),
                      !.Ab1_ld = Bound([i \in 1..Len(f.rho.val) |-> Explicit(f.dt, Ab_ld[i])]),
                      !.Ab2_ld = Bound([i \in 1..Len(f.rho.val) |-> Implicit(f.dt, Ab_ld[i])])]

\* a variant whose LD forward sub-step reads h after h's own forward sub-step
ForwardLdAfterH(f) ==
    LET h == Plus(Dot(f.Ab1_h[1], f.h), Times(f.dt, AsVector(f.Uh)))
    IN IF f.rho.kind = "none" THEN [f EXCEPT !.pc = "forward_h"]
       ELSE IF f.rho.kind = "scalar"
            THEN IF ~IsBound(f.y) THEN Raise(f, "NameError")
                 ELSE [f EXCEPT !.pc = "forward_h",
                                !.y = Bound(Plus(Dot(f.Ab1_ld[1], f.y[1]),
                                                 Times(f.dt, Dot(f.Uld, h))))]
       ELSE IF ~IsBound(f.ys) THEN Raise(f, "NameError")
       ELSE IF Len(f.ys[1]) > Len(f.Ab1_ld[1]) THEN Raise(f, "IndexError")
       ELSE [f EXCEPT !.pc = "forward_h",
                      !.ys = Bound([i \in 1..Len(f.ys[1]) |->
                                      Plus(Dot(f.Ab1_ld[1][i], f.ys[1][i]),
                                           Times(f.dt, Dot(f.Uld, h)))])]

\* lines 226-230: forward sub-step of the LD vectors
ForwardLd(f) ==
    IF f.rho.kind = "none" THEN [f EXCEPT !.pc = "forward_h"]
    ELSE IF f.rho.kind = "scalar"
         THEN IF ~IsBound(f.y) THEN Raise(f, "NameError")
              ELSE [f EXCEPT !.pc = "forward_h",
                             !.y = Bound(Plus(Dot(f.Ab1_ld[1], f.y[1]),
                                              Times(f.dt, Dot(f.Uld, f.h))))]
    ELSE IF ~IsBound(f.ys) THEN Raise(f, "NameError")
    ELSE IF Len(f.ys[1]) > Len(f.Ab1_ld[1]) THEN Raise(f, "IndexError")
    ELSE [f EXCEPT !.pc = "forward_h",
                   !.ys = Bound([i \in 1..Len(f.ys[1]) |->
                                   Plus(Dot(f.Ab1_ld[1][i], f.ys[1][i]),
                                        Times(f.dt, Dot(f.Uld, f.h)))])]

\* a variant whose forward sub-step leaves out the mutation input
ForwardHNoInput(f) == [f EXCEPT !.pc = "backward_ld", !.h = Dot(f.Ab1_h[1], f.h)]

\* line 232: forward sub-step of h
ForwardH(f) ==
    [f EXCEPT !.pc = "backward_ld",
              !.h = Plus(Dot(f.Ab1_h[1], f.h), Times(f.dt, AsVector(f.Uh)))]

\* lines 236-240: backward sub-step of the LD vectors
BackwardLd(f) ==
    IF f.rho.kind = "none" THEN [f EXCEPT !.pc = "backward_h"]
    ELSE IF f.rho.kind = "scalar"
         THEN [f EXCEPT !.pc = "backward_h", !.y = Bound(Solve(f.Ab2_ld[1], f.y[1]))]
    ELSE [f EXCEPT !.pc = "backward_h",
                   !.ys = Bound([i \in 1..Len(f.ys[1]) |->
                                   Solve(f.Ab2_ld[1][i], f.ys[1][i])])]

\* line 242: backward sub-step of h
BackwardH(f) == [f EXCEPT !.pc = "advance", !.h = Solve(f.Ab2_h[1], f.h)]

\* lines 244-246
Advance(f) ==
    [f EXCEPT !.pc = "while",
              !.elapsed_t = RAdd(f.elapsed_t, f.dt),
              !.dt_last = f.dt,
              !.nus_last = f.nus,
              !.steps = f.steps + 1]

\* line 248: Y[-1] = h
WriteBackH(f) == [f EXCEPT !.pc = "writeback_ld", !.Y = [f.Y EXCEPT ![Len(f.Y)] = f.h]]

\* lines 249-252: Y[0] = y, or Y[:-1] = ys
WriteBackLd(f) ==
    IF f.rho.kind = "scalar"
    THEN IF ~IsBound(f.y) THEN Raise(f, "NameError")
         ELSE [f EXCEPT !.pc = "return", !.Y = [f.Y EXCEPT ![1] = f.y[1]]]
    ELSE IF ~IsBound(f.ys) THEN Raise(f, "NameError")
         ELSE [f EXCEPT !.pc = "return", !.Y = f.ys[1] \o <<f.Y[Len(f.Y)]>>]

\* line 254: return Y
Return(f) == [f EXCEPT !.pc = "done"]

\* one step of a running call, by its position
StepOf(f) ==
    CASE f.pc = "while" -> WhileTest(f)
      [] f.pc = "clip" -> Clip(f)
      [] f.pc = "rebuild" -> Rebuild(f)
      [] f.pc = "forward_ld" -> ForwardLd(f)
      [] f.pc = "forward_h" -> ForwardH(f)
      [] f.pc = "backward_ld" -> BackwardLd(f)
      [] f.pc = "backward_h" -> BackwardH(f)
      [] f.pc = "advance" -> Advance(f)
      [] f.pc = "writeback_h" -> WriteBackH(f)
      [] f.pc = "writeback_ld" -> WriteBackLd(f)
      [] f.pc = "return" -> Return(f)

\* a call run to its end: normal return ("done") or an exception ("error")
RECURSIVE RunToEnd(_)
RunToEnd(f) == IF f.pc \in {"done", "error"} THEN f ELSE RunToEnd(StepOf(f))

\* ---------------------------------------------------- steady_state
\* a variant whose mutation input is driven by theta whatever the selfing rate
equilibrium_ld_no_selfing(theta, r, selfing_rate) ==
    LET h_ss == Num(<<theta>>)
        U == Matrices_mutation_ld(1, theta, SelfList(<<selfing_rate>>))
        R == Matrices_recombination(1, r, SelfList(<<selfing_rate>>))
        D == Matrices_drift_ld(1, <<Q(1)>>)
    IN [y |-> Solve(OpSum(1, <<D, R>>), Minus(Dot(U, h_ss))), h_ss |-> h_ss]

\* lines 287-295: the LD equilibrium for one rho, with the heterozygosity
\* value that drives its mutation input
equilibrium_ld(theta, r, selfing_rate) ==
    LET h_ss == IF selfing_rate.kind = "none" THEN Num(<<theta>>)
                ELSE Num(<<RMul(theta, RSub(Q(1), Half(selfing_rate.val[1])))>>)
        U == Matrices_mutation_ld(1, theta, SelfList(<<selfing_rate>>))
        R == Matrices_recombination(1, r, SelfList(<<selfing_rate>>))
        D == Matrices_drift_ld(1, <<Q(1)>>)
    IN [y |-> Solve(OpSum(1, <<D, R>>), Minus(Dot(U, h_ss))), h_ss |-> h_ss]

\* line 257: the call
EnterSteadyState(theta, rho, selfing_rate) ==
    [fn |-> "steady_state", pc |-> "check_theta", err |-> "",
     theta |-> theta, rho |-> rho, selfing_rate |-> selfing_rate,
     h_ss |-> Unbound, ys_ss |-> <<>>, ret |-> Unbound,
     calls |-> <<>>, solves |-> 0, drivers |-> <<>>]

\* lines 258-259
SsCheckTheta(f) ==
    IF RLe(f.theta, Q(0)) THEN Raise(f, "ValueError") ELSE [f EXCEPT !.pc = "check_rho"]

\* lines 260-266
SsCheckRho(f) ==
    IF f.rho.kind # "none" /\ \E i \in 1..Len(f.rho.val) : RLt(f.rho.val[i], Q(0))
    THEN Raise(f, "ValueError")
    ELSE [f EXCEPT !.pc = "check_selfing"]

\* lines 267-274
SsSelfing(f) ==
    IF f.selfing_rate.kind = "none"
    THEN [f EXCEPT !.pc = "dispatch", !.h_ss = Bound(Num(<<f.theta>>))]
    ELSE IF f.selfing_rate.kind # "scalar" THEN Raise(f, "ValueError")
    ELSE IF RLt(f.selfing_rate.val[1], Q(0)) \/ RLt(Q(1), f.selfing_rate.val[1])
         THEN Raise(f, "ValueError")
    ELSE [f EXCEPT !.pc = "dispatch",
                   !.h_ss = Bound(Num(<<RMul(f.theta,
                                             RSub(Q(1), Half(f.selfing_rate.val[1])))>>))]

\* lines 275, 280, 283: list of rhos, one rho, or only het stats
SsDispatch(f) ==
    IF f.rho.kind = "list" THEN [f EXCEPT !.pc = "solve_list"]
    ELSE IF f.rho.kind = "scalar" THEN [f EXCEPT !.pc = "solve_one"]
    ELSE [f EXCEPT !.pc = "done", !.ret = Bound(<<f.h_ss[1]>>)]

\* one equilibrium_ld call, logged
SsSolved(f, e) ==
    [f EXCEPT !.calls = f.calls \o <<"mutation_ld", "recombination", "drift_ld">>,
              !.solves = f.solves + 1,
              !.drivers = Append(f.drivers, e.h_ss)]

\* a variant that solves for the rates from the end of the list backwards
SsSolveListReversed(f) ==
    IF Len(f.ys_ss) < Len(f.rho.val)
    THEN LET e == equilibrium_ld(f.theta, f.rho.val[Len(f.rho.val) - Len(f.ys_ss)],
                                 f.selfing_rate)
         IN [SsSolved(f, e) EXCEPT !.ys_ss = Append(f.ys_ss, e.y)]
    ELSE [f EXCEPT !.pc = "done", !.ret = Bound(f.ys_ss \o <<f.h_ss[1]>>)]

\* lines 276-279: the next element of the list comprehension, then the return
SsSolveList(f) ==
    IF Len(f.ys_ss) < Len(f.rho.val)
    THEN LET e == equilibrium_ld(f.theta, f.rho.val[Len(f.ys_ss) + 1], f.selfing_rate)
         IN [SsSolved(f, e) EXCEPT !.ys_ss = Append(f.ys_ss, e.y)]
    ELSE [f EXCEPT !.pc = "done", !.ret = Bound(f.ys_ss \o <<f.h_ss[1]>>)]

\* lines 281-282
SsSolveOne(f) ==
    LET e == equilibrium_ld(f.theta, f.rho.val[1], f.selfing_rate)
    IN [SsSolved(f, e) EXCEPT !.pc = "done", !.ret = Bound(<<e.y, f.h_ss[1]>>)]

\* one step of a running steady_state call, by its position
SsStepOf(f) ==
    CASE f.pc = "check_theta" -> SsCheckTheta(f)
      [] f.pc = "check_rho" -> SsCheckRho(f)
      [] f.pc = "check_selfing" -> SsSelfing(f)
      [] f.pc = "dispatch" -> SsDispatch(f)
      [] f.pc = "solve_list" -> SsSolveList(f)
      [] f.pc = "solve_one" -> SsSolveOne(f)

\* steady_state(theta, rho, selfing_rate), run to its return or its exception
RECURSIVE SsRun(_)
SsRun(f) == IF f.pc \in {"done", "error"} THEN f ELSE SsRun(SsStepOf(f))

steady_state(theta, rho, selfing_rate) == SsRun(EnterSteadyState(theta, rho, selfing_rate))

\* -------------------------------------------- steady_state_two_pop
\* lines 298-301: the call
EnterTwoPop(nus, m, rho, theta, selfing_rate) ==
    [fn |-> "steady_state_two_pop", pc |-> "check_rho", err |-> "",
     nus |-> nus, m |-> m, theta |-> theta, rho |-> rho, selfing_rate |-> selfing_rate,
     nu0 |-> nus[1], nu1 |-> nus[2], m01 |-> m[1][2], m10 |-> m[2][1],
     h_ss |-> Unbound, y_ss |-> <<>>, ret |-> Unbound,
     calls |-> <<>>, solves |-> 0, drivers |-> <<>>]

\* lines 302-308
TpCheckRho(f) ==
    IF f.rho.kind # "none" /\ \E i \in 1..Len(f.rho.val) : RLt(f.rho.val[i], Q(0))
    THEN Raise(f, "ValueError")
    ELSE [f EXCEPT !.pc = "check_theta"]

\* lines 309-310
TpCheckTheta(f) ==
    IF RLe(f.theta, Q(0)) THEN Raise(f, "ValueError") ELSE [f EXCEPT !.pc = "check_sizes"]

\* a variant that checks the migration rates only
TpCheckRatesOnly(f) ==
    IF f.m01 <= 0 \/ f.m10 <= 0 THEN Raise(f, "ValueError")
    ELSE [f EXCEPT !.pc = "check_selfing"]

\* lines 312-315
TpCheckSizes(f) ==
    IF f.m01 <= 0 \/ f.m10 <= 0 \/ RLe(f.nu0, Q(0)) \/ RLe(f.nu1, Q(0))
    THEN Raise(f, "ValueError")
    ELSE [f EXCEPT !.pc = "check_selfing"]

\* lines 317-324
TpSelfing(f) ==
    IF f.selfing_rate.kind = "none"
    THEN [f EXCEPT !.pc = "solve_h",
                   !.selfing_rate = SelfList(<<SelfScalar(Q(0)), SelfScalar(Q(0))>>)]
    ELSE IF f.selfing_rate.kind # "list" \/ Len(f.selfing_rate.val) # 2
         THEN Raise(f, "ValueError")
    ELSE IF \E i \in 1..2 : \/ RLt(f.selfing_rate.val[i].val[1], Q(0))
                            \/ RLt(Q(1), f.selfing_rate.val[i].val[1])
         THEN Raise(f, "ValueError")
    ELSE [f EXCEPT !.pc = "solve_h"]

\* the migration matrix [[0, m01], [m10, 0]] of lines 327 and 340
TpMig(f) == << <<0, f.m01>>, <<f.m10, 0>> >>

\* lines 327-334: the heterozygosity steady state
TpSolveH(f) ==
    LET Mh == Matrices_migration_h(2, TpMig(f))
        Dh == Matrices_drift_h(2, <<f.nu0, f.nu1>>)
        Uh == Matrices_mutation_h(2, f.theta, f.selfing_rate)
        h_ss == Solve(OpSum(2, <<Mh, Dh>>), Minus(AsVector(Uh)))
        g == [f EXCEPT !.h_ss = Bound(h_ss),
                       !.calls = f.calls \o <<"migration_h", "drift_h", "mutation_h">>,
                       !.solves = f.solves + 1]
    IN IF f.rho.kind = "none" THEN [g EXCEPT !.pc = "done", !.ret = Bound(<<h_ss>>)]
       ELSE [g EXCEPT !.pc = "solve_ld"]

\* lines 336-341
two_pop_ld_ss(nu0, nu1, m01, m10, theta, r, selfing_rate, h_ss) ==
    LET U == Matrices_mutation_ld(2, theta, selfing_rate)
        R == Matrices_recombination(2, r, selfing_rate)
        D == Matrices_drift_ld(2, <<nu0, nu1>>)
        M == Matrices_migration_ld(2, << <<0, m01>>, <<m10, 0>> >>)
    IN Solve(OpSum(2, <<D, R, M>>), Minus(Dot(U, h_ss)))

\* lines 343-350: one LD solve per rho, then the return
TpSolveLd(f) ==
    LET n == Len(f.y_ss) + 1
        y == two_pop_ld_ss(f.nu0, f.nu1, f.m01, f.m10, f.theta, f.rho.val[n],
                           f.selfing_rate, f.h_ss[1])
        g == [f EXCEPT !.calls = f.calls \o <<"mutation_ld", "recombination",
                                              "drift_ld", "migration_ld">>,
                       !.solves = f.solves + 1,
                       !.drivers = Append(f.drivers, f.h_ss[1])]
    IN IF f.rho.kind = "scalar"
       THEN [g EXCEPT !.pc = "done", !.ret = Bound(<<y, f.h_ss[1]>>)]
       ELSE IF n <= Len(f.rho.val) THEN [g EXCEPT !.y_ss = Append(f.y_ss, y)]
       ELSE [f EXCEPT !.pc = "done", !.ret = Bound(f.y_ss \o <<f.h_ss[1]>>)]

\* ------------------------------------------------------- module Util
\* A moment name is a tuple: <<"H", i, j>>, <<"DD", i, j>>, <<"Dz", i, j, k>>,
\* <<"pi2", i, j, k, l>>, with populations numbered from 0.
LexLt(a, b) ==
    \E k \in 1..Len(a) : a[k] < b[k] /\ \A j \in 1..(k - 1) : a[j] = b[j]

RECURSIVE SortLex(_)
SortLex(S) ==
    IF S = {} THEN <<>>
    ELSE LET lo == CHOOSE x \in S : \A z \in S \ {x} : LexLt(x, z)
         IN <<lo>> \o SortLex(S \ {lo})

Named(tag, idx) == [k \in 1..Len(idx) |-> <<tag>> \o idx[k]]

het_names(num_pops) ==
    LET P == 0..(num_pops - 1)
    IN Named("H", SortLex({x \in P \X P : x[1] <= x[2]}))

ld_names(num_pops) ==
    LET P == 0..(num_pops - 1)
        DD == {x \in P \X P : x[1] <= x[2]}
        Dz == {x \in P \X P \X P : x[2] <= x[3]}
        pi2 == {x \in P \X P \X P \X P :
                  /\ x[1] <= x[2] /\ x[1] <= x[3] /\ x[3] <= x[4]
                  /\ ~(x[3] = x[1] /\ x[4] = x[1] /\ x[2] # x[1])
                  /\ ~(x[1] = x[3] /\ x[4] < x[2])}
    IN Named("DD", SortLex(DD)) \o Named("Dz", SortLex(Dz)) \o Named("pi2", SortLex(pi2))

Sort2(a, b) == IF a <= b THEN <<a, b>> ELSE <<b, a>>

\* the name under which a moment is stored
map_moment(mom) ==
    CASE mom[1] = "DD" -> <<"DD">> \o Sort2(mom[2], mom[3])
      [] mom[1] = "Dz" -> <<"Dz", mom[2]>> \o Sort2(mom[3], mom[4])
      [] mom[1] = "pi2" ->
            LET p == Sort2(mom[2], mom[3])
                q == Sort2(mom[4], mom[5])
            IN IF LexLt(q, p) THEN <<"pi2">> \o q \o p ELSE <<"pi2">> \o p \o q

\* list.index(x); 0 when x is not in the list (Python raises ValueError)
Index(list, x) ==
    IF \E i \in 1..Len(list) : list[i] = x
    THEN CHOOSE i \in 1..Len(list) : list[i] = x
    ELSE 0

\* ------------------------------------------------------------ splits
\* lines 19-43; h is a sequence of entries, pop_to_split counts from 0
split_h(h, pop_to_split, num_pops) ==
    LET hn == het_names(num_pops)
        to == het_names(num_pops + 1)
        from(ii, jj) ==
            IF jj = num_pops
            THEN IF ii = jj THEN <<"H", pop_to_split, pop_to_split>>
                 ELSE IF ii <= pop_to_split THEN <<"H", ii, pop_to_split>>
                 ELSE <<"H", pop_to_split, ii>>
            ELSE <<"H", ii, jj>>
    IN [c \in 1..(((num_pops + 1) * (num_pops + 2)) \div 2) |->
           h[Index(hn, from(to[c][2], to[c][3]))]]

\* a variant that renames the new population to population 0, not to its parent
RenamedToFirst(mom_to, pop_to_split, num_pops) ==
    [jj \in 1..Len(mom_to) |-> IF jj > 1 /\ mom_to[jj] = num_pops THEN 0 ELSE mom_to[jj]]

\* lines 55-59: the new population's index replaced by the split one's
Renamed(mom_to, pop_to_split, num_pops) ==
    [jj \in 1..Len(mom_to) |->
        IF jj > 1 /\ mom_to[jj] = num_pops THEN pop_to_split ELSE mom_to[jj]]

\* lines 46-61
split_ld(y, pop_to_split, num_pops) ==
    LET mom_list_from == ld_names(num_pops)
        mom_list_to == ld_names(num_pops + 1)
    IN [ii \in 1..Len(mom_list_to) |->
           IF Index(mom_list_from, mom_list_to[ii]) # 0
           THEN y[Index(mom_list_from, mom_list_to[ii])]
           ELSE y[Index(mom_list_from,
                        map_moment(Renamed(mom_list_to[ii], pop_to_split, num_pops)))]]

\* the split of a whole state: every LD vector (one per rho), then H
EnterSplit(Y, pop_to_split, num_pops) ==
    [fn |-> "split", pc |-> "done", err |-> "",
     Yin |-> Y, pop_to_split |-> pop_to_split, num_pops |-> num_pops,
     ret |-> Bound([i \in 1..Len(Y) |->
                      IF i = Len(Y) THEN Num(split_h(Y[i].val, pop_to_split, num_pops))
                      ELSE Num(split_ld(Y[i].val, pop_to_split, num_pops))])]

\* ------------------------------------------------------------- inputs
ThetaVals == {0, 1, 2}

RhoVals == {-1, 0, 1, 2}

\* batches of recombination rates, in increasing order
RhoLists ==
    {rs \in UNION {[1..k -> RhoVals] : k \in 1..MaxK} :
        \A i \in 1..(Len(rs) - 1) : rs[i] < rs[i + 1]}

RhoForms ==
    {RhoNone} \cup {RhoScalar(Q(r)) : r \in RhoVals}
        \cup {RhoList([i \in 1..Len(rs) |-> Q(rs[i])]) : rs \in RhoLists}

ValidRho(r) == \A i \in 1..Len(r.val) : ~RLt(r.val[i], Q(0))

SelfingForms ==
    {SelfNone, SelfList(<<SelfScalar(Q(0))>>)}
        \cup {SelfScalar(f) : f \in {<<-1, 2>>, Q(0), <<1, 2>>, Q(1), <<3, 2>>}}

SelfingPairs ==
    {SelfNone, SelfScalar(<<1, 2>>)}
        \cup {SelfList(<<SelfScalar(a), SelfScalar(b)>>) :
                 a \in {Q(0), <<1, 2>>}, b \in {<<-1, 2>>, Q(1), <<3, 2>>}}

\* a state of one population given by the caller: k LD vectors, then H
GenericY(k) ==
    [i \in 1..(k + 1) |-> IF i <= k THEN Sym("input", i, <<>>) ELSE Sym("input", 0, <<>>)]

Sizes(num_pops) ==
    {NuList([i \in 1..num_pops |-> Q(1)]),
     NuList([i \in 1..num_pops |-> Q(i + 1)]),
     NuFunc([i \in 1..num_pops |-> Q(1)], Q(1), [i \in 1..num_pops |-> Q(2)])}

Migrations(num_pops) ==
    {MNone,
     MGiven([i \in 1..num_pops |-> [j \in 1..num_pops |-> 0]]),
     MGiven([i \in 1..num_pops |-> [j \in 1..num_pops |-> IF i = j THEN 0 ELSE 1]])}

DtVals == {Q(1), Q(2)}

\* -------------------------------------------------------------- state
\* theta, rho: the parameters of the demographic model, the same in every call
\* held:       the state container the caller holds, and its population count
\* fr:         the frame of the call that is running or has just ended
VARIABLES theta, rho, held, fr

vars == <<theta, rho, held, fr>>

Idle == [fn |-> "none", pc |-> "idle", err |-> ""]

Init ==
    /\ theta \in {Q(t) : t \in ThetaVals}
    /\ rho \in RhoForms
    /\ \E k \in 0..MaxK :
          /\ rho.kind = "scalar" => k = 1
          /\ rho.kind = "list" => k = Len(rho.val)
          /\ held = [Y |-> GenericY(k), num_pops |-> 1]
    /\ fr = Idle

At(fn, pc) == fr.fn = fn /\ fr.pc = pc

\* the call is over and nothing was raised; the caller may go on
Ready == fr.pc = "idle" \/ (fr.pc = "done" /\ fr.fn # "integrate")

AllNum(Y) == \A i \in 1..Len(Y) : Y[i].kind = "num"

\* a step of integrate; Y is the caller's list, changed in place
IntegrateStep(pc, g) ==
    /\ At("integrate", pc)
    /\ fr' = g
    /\ held' = [held EXCEPT !.Y = g.Y]
    /\ UNCHANGED <<theta, rho>>

\* LD vectors with known entries that leave their equilibrium: the fractions
\* grow with every step, so these runs are kept to short epochs
Drifting(Y, nu) == AllNum(Y) /\ Len(Y) > 1 /\ nu # NuList(<<Q(1)>>)

CallIntegrate ==
    /\ Ready
    /\ RLt(Q(0), theta) /\ ValidRho(rho)
    /\ fr.fn \in {"steady_state", "steady_state_two_pop"} => fr.selfing_rate.kind = "none"
    /\ \E nu \in Sizes(held.num_pops), T \in 0..MaxT, dt \in DtVals,
          m \in Migrations(held.num_pops) :
          /\ Drifting(held.Y, nu) => T <= 2
          /\ fr' = EnterIntegrate(held.Y, nu, Q(T), dt, theta, rho, m,
                               IF nu.callable THEN held.num_pops ELSE 0)
    /\ UNCHANGED <<theta, rho, held>>

IntWhile == IntegrateStep("while", WhileTest(fr))

IntClip == IntegrateStep("clip", Clip(fr))

IntRebuild == IntegrateStep("rebuild", Rebuild(fr))

IntForwardLd == IntegrateStep("forward_ld", ForwardLd(fr))

IntForwardH == IntegrateStep("forward_h", ForwardH(fr))

IntBackwardLd == IntegrateStep("backward_ld", BackwardLd(fr))

IntBackwardH == IntegrateStep("backward_h", BackwardH(fr))

IntAdvance == IntegrateStep("advance", Advance(fr))

IntWriteBackH == IntegrateStep("writeback_h", WriteBackH(fr))

IntWriteBackLd == IntegrateStep("writeback_ld", WriteBackLd(fr))

IntReturn == IntegrateStep("return", Return(fr))

\* a step of a solver; a normal return hands the new state to the caller
SolverStep(fn, pc, g, num_pops) ==
    /\ At(fn, pc)
    /\ fr' = g
    /\ held' = IF g.pc = "done" THEN [Y |-> g.ret[1], num_pops |-> num_pops] ELSE held
    /\ UNCHANGED <<theta, rho>>

CallSteadyState ==
    /\ fr.pc = "idle"
    /\ \E selfing_rate \in SelfingForms : fr' = EnterSteadyState(theta, rho, selfing_rate)
    /\ UNCHANGED <<theta, rho, held>>

SteadyCheckTheta == SolverStep("steady_state", "check_theta", SsCheckTheta(fr), 1)

SteadyCheckRho == SolverStep("steady_state", "check_rho", SsCheckRho(fr), 1)

SteadySelfing == SolverStep("steady_state", "check_selfing", SsSelfing(fr), 1)

SteadyDispatch == SolverStep("steady_state", "dispatch", SsDispatch(fr), 1)

SteadySolveList == SolverStep("steady_state", "solve_list", SsSolveList(fr), 1)

SteadySolveOne == SolverStep("steady_state", "solve_one", SsSolveOne(fr), 1)

CallTwoPop ==
    /\ fr.pc = "idle"
    /\ \E nu0 \in {0, 1}, nu1 \in {2}, m01 \in {0, 1}, m10 \in {-1, 1},
          selfing_rate \in SelfingPairs :
          /\ nu0 = 0 => (m01 = 1 /\ m10 = 1)
          /\ m01 = 0 => m10 = 1
          /\ fr' = EnterTwoPop(<<Q(nu0), Q(nu1)>>, << <<0, m01>>, <<m10, 0>> >>,
                               rho, theta, selfing_rate)
    /\ UNCHANGED <<theta, rho, held>>

TwoPopCheckRho == SolverStep("steady_state_two_pop", "check_rho", TpCheckRho(fr), 2)

TwoPopCheckTheta == SolverStep("steady_state_two_pop", "check_theta", TpCheckTheta(fr), 2)

TwoPopCheckSizes == SolverStep("steady_state_two_pop", "check_sizes", TpCheckSizes(fr), 2)

TwoPopSelfing == SolverStep("steady_state_two_pop", "check_selfing", TpSelfing(fr), 2)

TwoPopSolveH == SolverStep("steady_state_two_pop", "solve_h", TpSolveH(fr), 2)

TwoPopSolveLd == SolverStep("steady_state_two_pop", "solve_ld", TpSolveLd(fr), 2)

CallSplit ==
    /\ Ready
    /\ held.num_pops < MaxPops
    /\ AllNum(held.Y)
    /\ \E pop_to_split \in 0..(held.num_pops - 1) :
          /\ fr' = EnterSplit(held.Y, pop_to_split, held.num_pops)
          /\ held' = [Y |-> fr'.ret[1], num_pops |-> held.num_pops + 1]
    /\ UNCHANGED <<theta, rho>>

Next ==
    \/ CallIntegrate \/ IntWhile \/ IntClip \/ IntRebuild \/ IntForwardLd \/ IntForwardH
    \/ IntBackwardLd \/ IntBackwardH \/ IntAdvance \/ IntWriteBackH \/ IntWriteBackLd
    \/ IntReturn
    \/ CallSteadyState \/ SteadyCheckTheta \/ SteadyCheckRho \/ SteadySelfing
    \/ SteadyDispatch \/ SteadySolveList \/ SteadySolveOne
    \/ CallTwoPop \/ TwoPopCheckRho \/ TwoPopCheckTheta \/ TwoPopCheckSizes
    \/ TwoPopSelfing \/ TwoPopSolveH \/ TwoPopSolveLd
    \/ CallSplit

Spec == Init /\ [][Next]_vars

\* ------------------------------------------------------------ properties
InLoop == {"rebuild", "forward_ld", "forward_h", "backward_ld", "backward_h", "advance"}

AfterLoop == {"writeback_h", "writeback_ld", "return", "done"}

\* C1: in integrate the elapsed time never exceeds T; a step that is under way
\* ends at or before T (an overshooting dt was shortened to T - elapsed); and
\* once the loop has been left the elapsed time of a call with T > 0 equals T.
C1_ElapsedReachesT ==
    fr.fn = "integrate" =>
        /\ RLe(fr.elapsed_t, fr.T)
        /\ fr.pc \in InLoop => RLe(RAdd(fr.elapsed_t, fr.dt), fr.T)
        /\ (fr.pc \in AfterLoop /\ RLt(Q(0), fr.T)) => fr.elapsed_t = fr.T

\* a call that has returned after a full step of 2 and a shortened step of 1
C1_Witness ==
    /\ At("integrate", "done")
    /\ fr.T = Q(3) /\ fr.dt_in = Q(2) /\ fr.dt = Q(1) /\ fr.steps = 2
    /\ fr.elapsed_t = Q(3)

\* C2 (as stated): integrate with T = 0 takes no step and returns normally with
\* every vector of the state equal to its input, whatever the form of rho.
C2_ZeroDurationReturnsInput ==
    (fr.fn = "integrate" /\ fr.T = Q(0) /\ fr.pc \in {"done", "error"}) =>
        /\ fr.pc = "done"
        /\ fr.steps = 0
        /\ fr.Y = fr.Yin

\* the arguments the solvers must refuse
SsRefused(f) ==
    \/ RLe(f.theta, Q(0))
    \/ \E i \in 1..Len(f.rho.val) : RLt(f.rho.val[i], Q(0))
    \/ f.selfing_rate.kind = "scalar"
           /\ (RLt(f.selfing_rate.val[1], Q(0)) \/ RLt(Q(1), f.selfing_rate.val[1]))

TpRefused(f) ==
    \/ RLe(f.theta, Q(0))
    \/ \E i \in 1..Len(f.rho.val) : RLt(f.rho.val[i], Q(0))
    \/ f.selfing_rate.kind = "list" /\ Len(f.selfing_rate.val) = 2
           /\ \E i \in 1..2 : \/ RLt(f.selfing_rate.val[i].val[1], Q(0))
                                \/ RLt(Q(1), f.selfing_rate.val[i].val[1])
    \/ RLe(f.nu0, Q(0)) \/ RLe(f.nu1, Q(0)) \/ f.m01 <= 0 \/ f.m10 <= 0

SolverChecks == {"check_theta", "check_rho", "check_sizes", "check_selfing"}

\* C3: a solver called with theta <= 0, a negative rho, a selfing rate outside
\* [0, 1] or (two populations) a size or migration rate <= 0 is either still
\* checking its arguments or has raised ValueError, and it has built no
\* operator and run no solve.
C3_RefusedBeforeAnyWork ==
    ((fr.fn = "steady_state" /\ SsRefused(fr))
        \/ (fr.fn = "steady_state_two_pop" /\ TpRefused(fr))) =>
        /\ fr.pc \in SolverChecks \cup {"error"}
        /\ fr.pc = "error" => fr.err = "ValueError"
        /\ fr.calls = <<>> /\ fr.solves = 0 /\ ~IsBound(fr.ret)

\* the two-population solver has refused a size of 0, all else being valid
C3_Witness ==
    /\ At("steady_state_two_pop", "error")
    /\ fr.nu0 = Q(0) /\ fr.m01 > 0 /\ fr.m10 > 0
    /\ RLt(Q(0), fr.theta) /\ ValidRho(fr.rho)
    /\ fr.calls = <<>>

Last(seq) == seq[Len(seq)]

Front(seq) == SubSeq(seq, 1, Len(seq) - 1)

\* C4: steady_state with a list of k rates returns k + 1 vectors, the i-th being
\* the LD vector of the call with the single rate rho[i], and the heterozygosity
\* vector last; with one rate it returns [LD, H]; without rho it returns [H].
C4_BatchedEqualsSingle ==
    At("steady_state", "done") =>
        LET ret == fr.ret[1]
            k == Len(fr.rho.val)
            single(r) == steady_state(fr.theta, RhoScalar(r), fr.selfing_rate)
        IN /\ Len(ret) = k + 1
           /\ Last(ret) = fr.h_ss[1]
           /\ \A i \in 1..k :
                 /\ single(fr.rho.val[i]).pc = "done"
                 /\ Len(single(fr.rho.val[i]).ret[1]) = 2
                 /\ ret[i] = single(fr.rho.val[i]).ret[1][1]
                 /\ ret[i] = equilibrium_ld(fr.theta, fr.rho.val[i], fr.selfing_rate).y
                 /\ Last(ret) = single(fr.rho.val[i]).ret[1][2]

\* a batch of two rates has been solved, with two different LD vectors
C4_Witness ==
    /\ At("steady_state", "done")
    /\ fr.rho.kind = "list" /\ Len(fr.rho.val) = 2
    /\ Len(fr.ret[1]) = 3
    /\ fr.ret[1][1] # fr.ret[1][2]
    /\ fr.ret[1][1].kind = "num"

\* theta * (1 - f/2), written as (2 theta - theta f) / 2
SelfedTheta(th, f) == Num(<<RDiv(RSub(RMul(Q(2), th), RMul(th, f)), Q(2))>>)

\* C5: the heterozygosity vector steady_state returns is [theta] without a
\* selfing rate and [theta (1 - f/2)] with the rate f, and every LD equilibrium
\* solve of the call takes this same value as its mutation input.
C5_EquilibriumHeterozygosity ==
    (fr.fn = "steady_state" /\ fr.pc \in {"solve_list", "solve_one", "done"}) =>
        LET want == IF fr.selfing_rate.kind = "none" THEN Num(<<fr.theta>>)
                    ELSE SelfedTheta(fr.theta, fr.selfing_rate.val[1])
        IN /\ fr.h_ss[1] = want
           /\ fr.pc = "done" => /\ Last(fr.ret[1]) = want
                                /\ Len(fr.drivers) = Len(fr.rho.val)
           /\ \A i \in 1..Len(fr.drivers) : fr.drivers[i] = want

\* theta = 2 and the selfing rate 1/2: H = 3/2, which has driven one LD solve
C5_Witness ==
    /\ At("steady_state", "done")
    /\ fr.theta = Q(2) /\ fr.selfing_rate = SelfScalar(<<1, 2>>)
    /\ Last(fr.ret[1]) = Num(<< <<3, 2>> >>)
    /\ fr.drivers = <<Num(<< <<3, 2>> >>)>>

\* integrate was called on the one-population equilibrium of its own theta and
\* rho, at the constant relative size 1
FromEquilibrium ==
    /\ fr.fn = "integrate" /\ fr.num_pops = 1
    /\ fr.nu = NuList(<<Q(1)>>)
    /\ AllNum(fr.Yin)
    /\ fr.Yin = steady_state(fr.theta, fr.rho, SelfNone).ret[1]

BetweenSteps == {"while", "clip", "rebuild", "forward_ld"} \cup AfterLoop

\* C6: integrating the equilibrium state at relative size 1 with the same
\* theta and rho changes nothing: between any two steps h and every LD vector
\* have their input values, and the caller's state equals the input whenever
\* and however the call ends, for every T and dt.
C6_SteadyStateIsFixedPoint ==
    FromEquilibrium =>
        /\ fr.Y = fr.Yin
        /\ fr.pc \in BetweenSteps =>
              /\ fr.h = Last(fr.Yin)
              /\ IsBound(fr.y) => fr.y[1] = fr.Yin[1]
              /\ IsBound(fr.ys) => fr.ys[1] = Front(fr.Yin)

\* three steps from the equilibrium of a batch of two rates have been taken
C6_Witness ==
    /\ FromEquilibrium /\ fr.pc = "done"
    /\ fr.rho.kind = "list" /\ Len(fr.rho.val) = 2
    /\ fr.T = Q(3) /\ fr.steps = 3
    /\ fr.Y = fr.Yin

HBuilders == {"mutation_h", "drift_h", "migration_h"}

\* C7 (as stated): integrate without rho never raises, whatever the state; it
\* calls no LD builder of Matrices; it leaves every LD vector of the state as
\* it was.
C7_WithoutRhoOnlyH ==
    (fr.fn = "integrate" /\ fr.rho.kind = "none") =>
        /\ fr.pc # "error"
        /\ \A i \in 1..Len(fr.calls) : fr.calls[i] \in HBuilders
        /\ Front(fr.Y) = Front(fr.Yin)

\* an unordered pair of populations
Pair(a, b) == {a, b}

\* two names stand for the same statistic: H and DD are symmetric in their two
\* populations, Dz in its last two, pi2 within each pair and between the pairs
SameStatistic(a, b) ==
    /\ a[1] = b[1]
    /\ CASE a[1] \in {"H", "DD"} -> Pair(a[2], a[3]) = Pair(b[2], b[3])
         [] a[1] = "Dz" -> a[2] = b[2] /\ Pair(a[3], a[4]) = Pair(b[3], b[4])
         [] a[1] = "pi2" ->
               {Pair(a[2], a[3]), Pair(a[4], a[5])} = {Pair(b[2], b[3]), Pair(b[4], b[5])}

\* the name of a statistic with the new population n read as its parent p
InParent(name, p, n) == [j \in 1..Len(name) |-> IF j > 1 /\ name[j] = n THEN p ELSE name[j]]

\* the places of the list `from` that hold the statistic `name` stands for
PlacesOf(from, name) == {i \in 1..Len(from) : SameStatistic(from[i], name)}

\* `out` is `inp` read through the renaming: one entry per name of `to`, each
\* the entry of `inp` stored under the parent's name
SelectsByName(out, inp, from, to, p, n) ==
    /\ Len(out) = Len(to)
    /\ \A c \in 1..Len(to) :
          /\ Cardinality(PlacesOf(from, InParent(to[c], p, n))) = 1
          /\ \A i \in PlacesOf(from, InParent(to[c], p, n)) : out[c] = inp[i]
          /\ \A d \in PlacesOf(to, InParent(to[c], p, n)) : out[c] = out[d]

\* the vector whose entries are their own positions
Positions(len) == [i \in 1..len |-> i]

\* C8: a split of population p out of n populations selects entries by name:
\* split_h returns (n+1)(n+2)/2 entries, split_ld one per LD moment of n+1
\* populations, each the input entry stored under the name with n replaced by
\* p; a statistic of the new population equals that of its parent, in every
\* LD vector of the batch.  Stated of the state that was split and of the
\* vector of positions, whose entries are all different.
C8_SplitSelectsByName ==
    At("split", "done") =>
        LET n == fr.num_pops
            p == fr.pop_to_split
            out == fr.ret[1]
            hn == het_names(n)
            ln == ld_names(n)
        IN /\ Len(out) = Len(fr.Yin)
           /\ Len(Last(out).val) = ((n + 1) * (n + 2)) \div 2
           /\ SelectsByName(Last(out).val, Last(fr.Yin).val, hn, het_names(n + 1), p, n)
           /\ SelectsByName(split_h(Positions(Len(hn)), p, n), Positions(Len(hn)),
                            hn, het_names(n + 1), p, n)
           /\ \A i \in 1..(Len(out) - 1) :
                 SelectsByName(out[i].val, fr.Yin[i].val, ln, ld_names(n + 1), p, n)
           /\ SelectsByName(split_ld(Positions(Len(ln)), p, n), Positions(Len(ln)),
                            ln, ld_names(n + 1), p, n)

\* population 1 of two has been split, with a batch of two LD vectors
C8_Witness ==
    /\ At("split", "done")
    /\ fr.num_pops = 2 /\ fr.pop_to_split = 1
    /\ Len(fr.ret[1]) = 3
    /\ Len(fr.ret[1][1].val) = Len(ld_names(3))
    /\ Len(fr.ret[1][3].val) = 6

\* the call of the frame f made as two calls: first for T1, then on what that
\* call returned for the rest of f.T, all other arguments as in f; an
\* exception of the first call ends the sequence
TwoEpochs(f, T1) ==
    LET first == RunToEnd(EnterIntegrate(f.Yin, f.nu, T1, f.dt_in, f.theta, f.rho, f.m, 0))
    IN IF first.pc = "error" THEN first
       ELSE RunToEnd(EnterIntegrate(first.Y, f.nu, RSub(f.T, T1), f.dt_in, f.theta, f.rho,
                                    f.m, 0))

ConstantSizes == fr.fn = "integrate" /\ ~fr.nu.callable

IsWhole(q) == q[2] = 1

\* C9 (as stated): with constant sizes, a call for T1 followed by a call for
\* T2 on the result returns what the single call for T1 + T2 returns, for
\* every way of cutting the duration in two.
C9_EpochsComposeAnywhere ==
    (ConstantSizes /\ fr.pc = "done" /\ AllNum(fr.Y)) =>
        \A T1 \in 0..fr.T[1] :
            /\ TwoEpochs(fr, Q(T1)).pc = "done"
            /\ TwoEpochs(fr, Q(T1)).Y = fr.Y

\* C9 (amended): when the cut T1 falls on a step boundary of the single call,
\* that is when T1 is a whole number of steps dt or the whole duration, the two
\* calls end as the single call ends (a return, or the same exception), and
\* where it returns they return the same state.
C9_EpochsComposeOnStepBoundary ==
    (ConstantSizes /\ fr.pc \in {"done", "error"}) =>
        \A T1 \in 0..fr.T[1] :
            (IsWhole(RDiv(Q(T1), fr.dt_in)) \/ Q(T1) = fr.T) =>
                /\ TwoEpochs(fr, Q(T1)).pc = fr.pc
                /\ TwoEpochs(fr, Q(T1)).err = fr.err
                /\ fr.pc = "done" => TwoEpochs(fr, Q(T1)).Y = fr.Y

\* two steps of 1 at relative size 2 have moved the LD vector away from its
\* equilibrium; the calls for 1 and then 1 end in the same state
C9_Witness ==
    /\ ConstantSizes /\ fr.pc = "done"
    /\ fr.T = Q(2) /\ fr.dt_in = Q(1) /\ fr.steps = 2
    /\ fr.rho.kind = "scalar" /\ AllNum(fr.Y)
    /\ fr.Y[1] # fr.Yin[1]
    /\ TwoEpochs(fr, Q(1)).Y = fr.Y

\* several populations and a migration matrix with a non-zero entry
Migrating(f) ==
    /\ f.num_pops > 1
    /\ f.m.given
    /\ \E i \in 1..Len(f.m.mat) : \E j \in 1..Len(f.m.mat[i]) : f.m.mat[i][j] # 0

\* the operators summed into the combined operator A
Parts(A) == A.par

\* the recombination operator of the i-th LD vector
RecombinationOf(f, i) == IF f.rho.kind = "scalar" THEN f.R[1] ELSE f.R[1][i]

CombinedLd(f, i) == IF f.rho.kind = "scalar" THEN f.Ab_ld[1] ELSE f.Ab_ld[1][i]

\* C10: without migration (no matrix, a zero matrix or one population) the
\* migration builders are never called and every combined operator is drift
\* (plus recombination); with migration the operators are built before the
\* loop, so they are there in every state of the call, and every combined
\* operator a rebuild has made contains them.
C10_MigrationOnlyWhenNeeded ==
    fr.fn = "integrate" =>
        IF Migrating(fr)
        THEN /\ IsBound(fr.Mh) /\ IsBound(fr.Mld)
             /\ \E i \in 1..Len(fr.calls) :
                   /\ fr.calls[i] = "migration_h"
                   /\ \A j \in 1..i : fr.calls[j] # "drift_h"
             /\ IsBound(fr.Ab_h) => Parts(fr.Ab_h[1]) = <<fr.Dh[1], fr.Mh[1]>>
             /\ IsBound(fr.Ab_ld) =>
                   \A i \in 1..Len(fr.rho.val) :
                       Parts(CombinedLd(fr, i))
                           = <<fr.Dld[1], fr.Mld[1], RecombinationOf(fr, i)>>
        ELSE /\ ~IsBound(fr.Mh) /\ ~IsBound(fr.Mld)
             /\ \A i \in 1..Len(fr.calls) : fr.calls[i] \notin {"migration_h", "migration_ld"}
             /\ IsBound(fr.Ab_h) => Parts(fr.Ab_h[1]) = <<fr.Dh[1]>>
             /\ IsBound(fr.Ab_ld) =>
                   \A i \in 1..Len(fr.rho.val) :
                       Parts(CombinedLd(fr, i)) = <<fr.Dld[1], RecombinationOf(fr, i)>>

\* two populations that exchange migrants, a batch of two rates, sizes that
\* change during the call: the operators were rebuilt and the call returned
C10_Witness ==
    /\ At("integrate", "done") /\ Migrating(fr)
    /\ fr.num_pops = 2 /\ Len(fr.rho.val) = 2
    /\ fr.rebuilds >= 2
    /\ Parts(fr.Ab_ld[1][2]) = <<fr.Dld[1], fr.Mld[1], fr.R[1][2]>>

\* the least whole number that is not below the rational q >= 0
Ceiling(q) == (q[1] + q[2] - 1) \div q[2]

\* C11 (as stated): every integrate call runs to completion, and its loop has
\* then taken ceil(T/dt) steps, whatever the state, the sizes, theta, rho and
\* migration are.
C11_StepsFromTAndDt ==
    (fr.fn = "integrate" /\ fr.pc \in {"done", "error"}) =>
        /\ fr.pc = "done"
        /\ fr.steps = Ceiling(RDiv(fr.T, fr.dt_in))

\* the operators and factorized matrices a call holds (lines 185-222)
MatricesOf(f) ==
    <<f.Dh, f.Dld, f.Ab_h, f.Ab_ld, f.Ab1_h, f.Ab2_h, f.Ab1_ld, f.Ab2_ld>>

\* the drift part of a combined operator (the first summand, lines 187-199)
DriftOf(A) == A.par[1]

\* the matrices f holds were built for the step dt and the sizes nus
BuiltFrom(f, dt, nus) ==
    /\ DriftOf(f.Ab_h[1]) = Matrices_drift_h(f.num_pops, nus)
    /\ f.Ab1_h[1] = Explicit(dt, f.Ab_h[1])
    /\ f.Ab2_h[1] = Implicit(dt, f.Ab_h[1])
    /\ f.rho.kind = "scalar" =>
          /\ DriftOf(f.Ab_ld[1]) = Matrices_drift_ld(f.num_pops, nus)
          /\ f.Ab1_ld[1] = Explicit(dt, f.Ab_ld[1])
          /\ f.Ab2_ld[1] = Implicit(dt, f.Ab_ld[1])
    /\ f.rho.kind = "list" =>
          \A i \in 1..Len(f.rho.val) :
              /\ DriftOf(f.Ab_ld[1][i]) = Matrices_drift_ld(f.num_pops, nus)
              /\ f.Ab1_ld[1][i] = Explicit(dt, f.Ab_ld[1][i])
              /\ f.Ab2_ld[1][i] = Implicit(dt, f.Ab_ld[1][i])

\* the step that is under way differs from the one before it, or is the first
StepChanged(f) == f.steps = 0 \/ f.dt # f.dt_last \/ f.nus # f.nus_last

\* C12: within one integrate call a step rebuilds the combined operators and
\* their explicit / implicit matrices if and only if it is the first step, or
\* its dt or its evaluated sizes differ from the previous step's; every other
\* step keeps the matrices it found; either way the step goes on with matrices
\* built from its own dt and sizes; and a call with a fixed size vector
\* rebuilds at most twice (first step, shortened last step), not on every step.
C12_RebuildIffChanged ==
    [][(At("integrate", "rebuild") /\ fr'.pc = "forward_ld") =>
          /\ IF StepChanged(fr)
             THEN fr'.rebuilds = fr.rebuilds + 1
             ELSE fr'.rebuilds = fr.rebuilds /\ MatricesOf(fr') = MatricesOf(fr)
          /\ BuiltFrom(fr', fr.dt, fr.nus)
          /\ ~fr.nu.callable => fr'.rebuilds <= 2]_vars

\* a call whose sizes change once has ended after three equal steps: built on
\* the first, rebuilt for the new sizes on the second, reused on the third
C12_Witness ==
    /\ At("integrate", "done")
    /\ fr.nu.callable /\ fr.rho.kind # "none"
    /\ fr.steps = 3 /\ fr.dt = fr.dt_in
    /\ fr.rebuilds = 2

\* the positions of a step up to and including the LD forward sub-step
BeforeForwardH == {"while", "clip", "rebuild", "forward_ld"}

\* Ab1.dot(v) + dt * Uld.dot(h): an LD forward sub-step driven by h
LdForward(Ab1, v, dt, Uld, h) == Plus(Dot(Ab1, v), Times(dt, Dot(Uld, h)))

\* C13: in every step of integrate h stays as the previous step left it (as
\* the input gave it, on the first step) until the LD forward sub-step is
\* over; the forward sub-step of each LD vector is driven by that h; and h is
\* changed by its own forward and backward sub-steps only, which come after.
C13_LdForwardReadsStartOfStepH ==
    [][(fr.fn = "integrate" /\ fr.pc \in {"while", "clip"} \cup InLoop) =>
          /\ fr.pc \in BeforeForwardH => fr'.h = fr.h
          /\ (fr.pc \in BeforeForwardH /\ fr.steps = 0) => fr.h = Last(fr.Yin)
          /\ fr'.h # fr.h => fr.pc \in {"forward_h", "backward_h"}
          /\ (fr.pc = "forward_ld" /\ fr'.pc = "forward_h") =>
                /\ fr.rho.kind = "scalar" =>
                      fr'.y[1] = LdForward(fr.Ab1_ld[1], fr.y[1], fr.dt, fr.Uld, fr.h)
                /\ fr.rho.kind = "list" =>
                      /\ Len(fr'.ys[1]) = Len(fr.ys[1])
                      /\ \A i \in 1..Len(fr.ys[1]) :
                            fr'.ys[1][i] =
                              LdForward(fr.Ab1_ld[1][i], fr.ys[1][i], fr.dt, fr.Uld, fr.h)]_vars

\* a second or later step has finished the forward sub-steps of two LD
\* vectors, and h, changed by the step before, has not been touched yet
C13_Witness ==
    /\ At("integrate", "forward_h")
    /\ fr.steps >= 1
    /\ fr.rho.kind = "list" /\ Len(fr.ys[1]) = 2
    /\ fr.h # Last(fr.Yin)

\* the call f with the single rate r passed as a scalar, on the LD vector v
\* and the heterozygosity vector of f's input, run to its end
ScalarCall(f, v, r) ==
    RunToEnd(EnterIntegrate(<<v, Last(f.Yin)>>, f.nu, f.T, f.dt_in, f.theta,
                            RhoScalar(r), f.m, f.num_pops))

\* C14 (as stated): integrate with rho given as a list of k >= 1 rates, on a
\* state of k LD vectors followed by H, completes; its result has k LD vectors
\* followed by H, the i-th LD vector being what the call with the scalar
\* rho[i] makes of the i-th input vector; for k = 1 the result is that of the
\* scalar call.
C14_BatchedIntegrateEqualsScalar ==
    (/\ fr.fn = "integrate" /\ fr.pc \in {"done", "error"}
     /\ fr.rho.kind = "list"
     /\ Len(fr.Yin) = Len(fr.rho.val) + 1) =>
        /\ fr.pc = "done"
        /\ Len(fr.Y) = Len(fr.Yin)
        /\ \A i \in 1..Len(fr.rho.val) :
              LET one == ScalarCall(fr, fr.Yin[i], fr.rho.val[i])
              IN /\ one.pc = "done"
                 /\ fr.Y[i] = one.Y[1]
                 /\ Last(fr.Y) = one.Y[2]
                 /\ Len(fr.rho.val) = 1 => fr.Y = one.Y

====
